---- MODULE Spec2Model ----
(***************************************************************************)
(* Smart Aquarium API: the request handlers of controllers/                *)
(* aquariumController.js over the relational tables they read and write.   *)
(*                                                                         *)
(* Every db.query is one atomic step of the database.  A handler that      *)
(* awaits two statements (updateFeedingSetting, updateAlertStatus,         *)
(* deleteFeedingSetting) is two steps, and between them the request sits   *)
(* in `inflight`, where the statements of other requests may overtake it.  *)
(* The parsing and validation a handler does before its first await runs   *)
(* to completion on the single JavaScript thread, so it belongs to the     *)
(* step of the first statement.  `resp` is the response sent last.         *)
(***************************************************************************)
EXTENDS Integers, Sequences, FiniteSets, Bags, TLC

VARIABLES
  aquariums,     \* table aquariums: id -> row
  aqSeq,         \* last value of the serial behind aquariums.id
  schedules,     \* table schedules: id -> row
  schSeq,        \* last value of the serial behind schedules.id
  feeding_logs,  \* table feeding_logs: id -> row
  logSeq,        \* last value of the serial behind feeding_logs.id
  alerts,        \* table alerts: id -> row
  sensor_data,   \* table sensor_data: id -> row
  db_up,         \* whether the database answers the pool's statements
  now,           \* the database clock, in ticks
  inflight,      \* requests between their ownership check and their second statement
  resp,          \* the response sent last
  returned       \* rows createAquarium returned, of ids not updated or deleted since

vars == <<aquariums, aqSeq, schedules, schSeq, feeding_logs, logSeq, alerts,
          sensor_data, db_up, now, inflight, resp, returned>>

----------------------------------------------------------------------------
(* Bounds of the model. *)

MaxAq == 2
MaxSched == 1
MaxFeeds == 1
MaxInFlight == 2
MaxAlerts == 2

\* Ticks of the database clock in one calendar day.
DayLen == 2

\* The clock runs from time 0 to the start of the next day.
MaxTime == DayLen

\* LIMIT of getDailyConsumption and of getAquariumAlerts.
DailyLimit == 30
AlertLimit == 100

----------------------------------------------------------------------------
(* JavaScript and SQL values, tagged with their type. *)

Undefined == [t |-> "undefined"]
Null == [t |-> "null"]
NaN == [t |-> "NaN"]
Num(n) == [t |-> "number", v |-> n]
Str(s) == [t |-> "string", v |-> s]
Bool(b) == [t |-> "boolean", v |-> b]

FalsyNullish(v) == v.t \in {"undefined", "null"}

\* JavaScript's ToBoolean, negated (the operand of ! and of ||).
Falsy(v) ==
  CASE v.t = "undefined" -> TRUE
    [] v.t = "null" -> TRUE
    [] v.t = "NaN" -> TRUE
    [] v.t = "number" -> v.v = 0
    [] v.t = "string" -> v.v = ""
    [] v.t = "boolean" -> ~v.v

OrNullish(a, b) == IF a = Null \/ a = Undefined THEN b ELSE a

\* a || b
Or(a, b) == IF Falsy(a) THEN b ELSE a

\* The decimal strings the requests of this model carry, as Number() reads them.
StringToNumber(s) ==
  CASE s = "" -> Num(0)
    [] s = "0" -> Num(0)
    [] s = "3" -> Num(3)
    [] s = "-2" -> Num(-2)
    [] OTHER -> NaN

\* Number(v)
Number(v) ==
  CASE v.t = "undefined" -> NaN
    [] v.t = "null" -> Num(0)
    [] v.t = "NaN" -> NaN
    [] v.t = "number" -> v
    [] v.t = "string" -> StringToNumber(v.v)
    [] v.t = "boolean" -> Num(IF v.v THEN 1 ELSE 0)

toNumber(v) == IF v = Null \/ v = Undefined THEN Null ELSE Number(v)

\* A query parameter as the driver sends it: undefined goes as NULL.
Param(v) == IF v = Undefined THEN Null ELSE v

CoalesceOverwrite(a, b) == a

\* SQL COALESCE(a, b)
Coalesce(a, b) == IF a = Null THEN b ELSE a

\* A record's field when the body has it, undefined otherwise (destructuring).
Field(body, f) == IF f \in DOMAIN body THEN body[f] ELSE Undefined

----------------------------------------------------------------------------
(* Responses. *)

NoResp == [h |-> "none", n |-> 0, req |-> [none |-> TRUE], status |-> 0,
           body |-> [none |-> TRUE], stmts |-> 0]

\* res.status(status).json(body) of handler h for request req, after stmts statements
Respond(h, req, status, body, stmts) ==
  resp' = [h |-> h, n |-> 1 - resp.n, req |-> req, status |-> status,
           body |-> body, stmts |-> stmts]

Error(code) == [error |-> code]

CatchWithDetail(h, req, stmts) ==
  Respond(h, req, 500, [error |-> "internal_error", detail |-> "pool.query rejected"], stmts)

\* catch (err) { ...; res.status(500).json({ error: 'internal_error' }) }
\* after the statement numbered stmts of the request threw
Catch(h, req, stmts) == Respond(h, req, 500, Error("internal_error"), stmts)

\* the response, if any, this step sent
Sent(h) == resp'.n # resp.n /\ resp'.h = h

----------------------------------------------------------------------------
(* Table aquariums. *)

AquariumColumns == {"id", "user_id", "name", "size_litres", "created_at"}

Project(row, cols) == [c \in cols |-> row[c]]

InsertAquarium(id, user_id, name, size_litres) ==
  [id |-> id, user_id |-> Param(user_id), name |-> Param(name),
   size_litres |-> Param(size_litres), created_at |-> Num(now),
   feeding_volume_grams |-> Null, feeding_period_hours |-> Null]

SelectAllAquariums(id) == DOMAIN aquariums

\* SELECT * FROM aquariums WHERE id = $1 : the ids of the rows selected
SelectAquarium(id) == {i \in DOMAIN aquariums : i = id}

DeleteAllAquariums(id) == DOMAIN aquariums

\* DELETE FROM aquariums WHERE id = $1 : the ids of the rows deleted
DeleteAquariumRows(id) == {i \in DOMAIN aquariums : i = id}

MergeAquariumReplace(row, b) ==
  [row EXCEPT
     !.name = Coalesce(Param(Field(b, "name")), @),
     !.size_litres = Param(Field(b, "size_litres")),
     !.feeding_volume_grams = Param(Field(b, "feeding_volume_grams")),
     !.feeding_period_hours = Param(Field(b, "feeding_period_hours"))]

\* The SET clause of updateAquarium on one row.
MergeAquarium(row, b) ==
  [row EXCEPT
     !.name = Coalesce(Param(Field(b, "name")), @),
     !.size_litres = Coalesce(Param(Field(b, "size_litres")), @),
     !.feeding_volume_grams = Coalesce(Param(Field(b, "feeding_volume_grams")), @),
     !.feeding_period_hours = Coalesce(Param(Field(b, "feeding_period_hours")), @)]

Restrict(f, S) == [x \in S |-> f[x]]

\* Request inputs.
PathIds == 1..MaxAq

CreateBodies ==
  { [user_id |-> Num(1), name |-> Str("Tank A")],
    [user_id |-> Num(1), name |-> Str("Tank A"), size_litres |-> Num(50)],
    [name |-> Str("Tank A"), size_litres |-> Num(50)],
    [user_id |-> Num(1)],
    [user_id |-> Num(0), name |-> Str("Tank A")],
    [user_id |-> Num(1), name |-> Str("")] }

UpdateBodies ==
  { [name |-> Str("Tank B"), size_litres |-> Null],
    [name |-> Null, size_litres |-> Num(60), feeding_volume_grams |-> Num(2),
     feeding_period_hours |-> Num(12)] }

UserFilters == {Undefined, Num(1)}

----------------------------------------------------------------------------
(* Aquarium handlers. *)

\* What no handler writes: the sensor readings and the database's availability.
UNCHANGED_environment == UNCHANGED <<sensor_data, db_up>>

UNCHANGED_children ==
  /\ UNCHANGED <<schedules, schSeq, feeding_logs, logSeq, alerts>>
  /\ UNCHANGED_environment

\* 1. POST /aquariums
createAquarium(body) ==
  LET req == [body |-> body] IN
  /\ IF Falsy(Field(body, "user_id")) \/ Falsy(Field(body, "name"))
     THEN /\ Respond("createAquarium", req, 400, Error("user_id and name required"), 0)
          /\ UNCHANGED <<aquariums, aqSeq, returned>>
     ELSE IF ~db_up
     THEN /\ Catch("createAquarium", req, 1)
          /\ UNCHANGED <<aquariums, aqSeq, returned>>
     ELSE /\ aqSeq < MaxAq
          /\ LET id == aqSeq + 1
                 row == InsertAquarium(id, Field(body, "user_id"), Field(body, "name"),
                                       Field(body, "size_litres"))
             IN /\ aquariums' = (id :> row) @@ aquariums
                /\ aqSeq' = id
                /\ Respond("createAquarium", req, 201, Project(row, AquariumColumns), 1)
                /\ returned' = (id :> Project(row, AquariumColumns)) @@ returned
  /\ UNCHANGED <<now, inflight>>
  /\ UNCHANGED_children

\* 4. GET /aquariums
listAquariums(userId) ==
  LET ids == IF ~Falsy(userId)
             THEN {i \in DOMAIN aquariums : aquariums[i].user_id = userId}
             ELSE DOMAIN aquariums
  IN /\ IF ~db_up
        THEN Catch("listAquariums", [user_id |-> userId], 1)
        ELSE Respond("listAquariums", [user_id |-> userId], 200,
                     [rows |-> {Project(aquariums[i], AquariumColumns) : i \in ids}], 1)
     /\ UNCHANGED <<aquariums, aqSeq, returned, now, inflight>>
     /\ UNCHANGED_children

\* 5. GET /aquariums/:id
getAquarium(id) ==
  LET aqu == SelectAquarium(id) IN
  /\ IF ~db_up
     THEN Catch("getAquarium", [id |-> id], 1)
     ELSE IF aqu = {}
     THEN Respond("getAquarium", [id |-> id], 404, Error("not_found"), 1)
     ELSE Respond("getAquarium", [id |-> id], 200, aquariums[CHOOSE i \in aqu : TRUE], 1)
  /\ UNCHANGED <<aquariums, aqSeq, returned, now, inflight>>
  /\ UNCHANGED_children

\* 10. PUT /aquarium/:id and /aquariums/:id, from the moment the database runs
\* the UPDATE
updateAquariumStatement(id, body) ==
  LET req == [id |-> id, body |-> body]
      hit == SelectAquarium(id)
  IN /\ IF ~db_up
        THEN /\ Catch("updateAquarium", req, 1)
             /\ UNCHANGED <<aquariums, returned>>
        ELSE /\ aquariums' = [i \in DOMAIN aquariums |->
                                IF i \in hit THEN MergeAquarium(aquariums[i], body)
                                ELSE aquariums[i]]
             /\ IF hit = {}
                THEN Respond("updateAquarium", req, 404, Error("not_found"), 1)
                ELSE Respond("updateAquarium", req, 200,
                             aquariums'[CHOOSE i \in hit : TRUE], 1)
             /\ returned' = Restrict(returned, DOMAIN returned \ hit)
     /\ UNCHANGED <<aqSeq, now>>
     /\ UNCHANGED_children

\* 10. PUT /aquarium/:id and /aquariums/:id
updateAquarium(id, body) ==
  /\ updateAquariumStatement(id, body)
  /\ UNCHANGED inflight

\* The rows of a child table that go with a deleted aquarium (ON DELETE CASCADE).
Cascade(table, gone) == Restrict(table, {i \in DOMAIN table : table[i].device_id \notin gone})

\* 13. DELETE /aquariums/:id
deleteAquarium(id) ==
  LET gone == DeleteAquariumRows(id) IN
  /\ IF ~db_up
     THEN /\ Catch("deleteAquarium", [id |-> id], 1)
          /\ UNCHANGED <<aquariums, schedules, feeding_logs, alerts, sensor_data, returned>>
     ELSE /\ aquariums' = Restrict(aquariums, DOMAIN aquariums \ gone)
          /\ schedules' = Cascade(schedules, gone)
          /\ feeding_logs' = Cascade(feeding_logs, gone)
          /\ alerts' = Cascade(alerts, gone)
          /\ sensor_data' = Cascade(sensor_data, gone)
          /\ IF gone = {}
             THEN Respond("deleteAquarium", [id |-> id], 404, Error("not_found"), 1)
             ELSE Respond("deleteAquarium", [id |-> id], 200,
                          [status |-> "deleted", id |-> CHOOSE i \in gone : TRUE], 1)
          /\ returned' = Restrict(returned, DOMAIN returned \ gone)
  /\ UNCHANGED <<aqSeq, schSeq, logSeq, db_up, now, inflight>>

\* The database clock advances.
Tick ==
  /\ now < MaxTime
  /\ now' = now + 1
  /\ UNCHANGED <<aquariums, aqSeq, inflight, resp, returned>>
  /\ UNCHANGED_children

----------------------------------------------------------------------------
(* The aquarium resource on an empty database. *)

Empty == [i \in {} |-> Null]

InitAq ==
  /\ aquariums = Empty /\ aqSeq = 0
  /\ schedules = Empty /\ schSeq = 0
  /\ feeding_logs = Empty /\ logSeq = 0
  /\ alerts = Empty
  /\ now = 0
  /\ sensor_data = Empty
  /\ db_up = TRUE
  /\ inflight = EmptyBag
  /\ resp = NoResp
  /\ returned = Empty

NextAq ==
  \/ \E b \in CreateBodies : createAquarium(b)
  \/ \E u \in UserFilters : listAquariums(u)
  \/ \E id \in PathIds : getAquarium(id)
  \/ \E id \in PathIds, b \in UpdateBodies : updateAquarium(id, b)
  \/ \E id \in PathIds : deleteAquarium(id)
  \/ Tick

SpecAq == InitAq /\ [][NextAq]_vars

----------------------------------------------------------------------------
(* Table schedules and its handlers. *)

InsertSchedule(id, aquariumId, b) ==
  [id |-> id, device_id |-> aquariumId,
   name |-> Or(Field(b, "name"), Null),
   type |-> Field(b, "type"),
   interval_hours |-> Or(Field(b, "interval_hours"), Null),
   feed_volume_grams |-> Or(Field(b, "feed_volume_grams"), Null),
   enabled |-> Coalesce(Param(Field(b, "enabled")), Bool(TRUE)),
   start_date |-> Or(Field(b, "start_date"), Null),
   end_date |-> Or(Field(b, "end_date"), Null)]

SelectScheduleAnyOwner(settingId, aquariumId) ==
  {i \in DOMAIN schedules : i = settingId}

\* SELECT * FROM schedules WHERE id = $1 AND device_id = $2 : the ids selected
SelectSchedule(settingId, aquariumId) ==
  {i \in DOMAIN schedules : i = settingId /\ schedules[i].device_id = aquariumId}

\* WHERE id = $8 of the UPDATE, WHERE id = $1 of the DELETE : the ids matched
ScheduleById(settingId) == {i \in DOMAIN schedules : i = settingId}

\* The SET clause of updateFeedingSetting on one row.
MergeSchedule(row, b) ==
  [row EXCEPT
     !.name = Coalesce(Param(Field(b, "name")), @),
     !.type = Coalesce(Param(Field(b, "type")), @),
     !.interval_hours = Coalesce(Param(Field(b, "interval_hours")), @),
     !.feed_volume_grams = Coalesce(Param(Field(b, "feed_volume_grams")), @),
     !.enabled = Coalesce(Param(Field(b, "enabled")), @),
     !.start_date = Coalesce(Param(Field(b, "start_date")), @),
     !.end_date = Coalesce(Param(Field(b, "end_date")), @)]

\* Request inputs.
ScheduleCreateBodies ==
  { [type |-> Str("interval"), interval_hours |-> Num(6), feed_volume_grams |-> Num(0),
     enabled |-> Bool(FALSE), start_date |-> Str("2025-01-01")],
    [name |-> Str("Morning")] }

SettingIds == {Undefined} \cup {Num(i) : i \in 1..MaxSched}

ScheduleUpdateBodies ==
  { [settingId |-> sid, name |-> Str("Evening"), type |-> Null, enabled |-> Bool(TRUE),
     end_date |-> Str("2025-12-31")] : sid \in SettingIds }

UNCHANGED_aquariums ==
  /\ UNCHANGED <<aquariums, aqSeq, returned>>
  /\ UNCHANGED_environment

\* 2. POST /aquariums/:id/feeding_settings
createFeedingSetting(aquariumId, body) ==
  LET req == [id |-> aquariumId, body |-> body] IN
  /\ IF Falsy(Field(body, "type"))
     THEN /\ Respond("createFeedingSetting", req, 400,
                     Error("type required (interval|daily_times)"), 0)
          /\ UNCHANGED <<schedules, schSeq>>
     ELSE IF ~db_up
     THEN /\ Catch("createFeedingSetting", req, 1)
          /\ UNCHANGED <<schedules, schSeq>>
     ELSE /\ schSeq < MaxSched
          /\ LET id == schSeq + 1
                 row == InsertSchedule(id, aquariumId, body)
             IN /\ schedules' = (id :> row) @@ schedules
                /\ schSeq' = id
                /\ Respond("createFeedingSetting", req, 201, row, 1)
  /\ UNCHANGED <<feeding_logs, logSeq, alerts, now, inflight>>
  /\ UNCHANGED_aquariums

getFeedingSettingsChecked(id) ==
  /\ IF SelectAquarium(id) = {}
     THEN Respond("getFeedingSettings", [id |-> id], 404, Error("not_found"), 1)
     ELSE Respond("getFeedingSettings", [id |-> id], 200,
                  [rows |-> {schedules[i] : i \in {j \in DOMAIN schedules :
                                                     schedules[j].device_id = id}}], 2)
  /\ UNCHANGED <<schedules, schSeq, feeding_logs, logSeq, alerts, now, inflight>>
  /\ UNCHANGED_aquariums

\* 9. GET /aquariums/:id/feeding_settings
getFeedingSettings(id) ==
  /\ IF ~db_up
     THEN Catch("getFeedingSettings", [id |-> id], 1)
     ELSE Respond("getFeedingSettings", [id |-> id], 200,
                  [rows |-> {schedules[i] : i \in {j \in DOMAIN schedules :
                                                     schedules[j].device_id = id}}], 1)
  /\ UNCHANGED <<schedules, schSeq, feeding_logs, logSeq, alerts, now, inflight>>
  /\ UNCHANGED_aquariums

\* 11. PUT /aquariums/:id/feeding_settings, up to the ownership check
updateFeedingSettingCheck(aquariumId, body) ==
  LET req == [id |-> aquariumId, body |-> body]
      settingId == Field(body, "settingId")
  IN /\ IF Falsy(settingId)
        THEN /\ Respond("updateFeedingSetting", req, 400,
                        Error("settingId required in body"), 0)
             /\ UNCHANGED inflight
        ELSE IF ~db_up
        THEN /\ Catch("updateFeedingSetting", req, 1)
             /\ UNCHANGED inflight
        ELSE IF SelectSchedule(settingId.v, aquariumId) = {}
        THEN /\ Respond("updateFeedingSetting", req, 404, Error("schedule_not_found"), 1)
             /\ UNCHANGED inflight
        ELSE /\ BagCardinality(inflight) < MaxInFlight
             /\ inflight' = inflight (+) SetToBag({[h |-> "updateFeedingSetting", req |-> req, stmts |-> 1]})
             /\ UNCHANGED resp
     /\ UNCHANGED <<schedules, schSeq, feeding_logs, logSeq, alerts, now>>
     /\ UNCHANGED_aquariums

\* 11. PUT /aquariums/:id/feeding_settings, the UPDATE and the response
updateFeedingSettingApply(r) ==
  LET hit == ScheduleById(r.req.body.settingId.v) IN
  /\ r.h = "updateFeedingSetting"
  /\ IF ~db_up
     THEN /\ Catch("updateFeedingSetting", r.req, r.stmts + 1)
          /\ UNCHANGED schedules
     ELSE /\ schedules' = [i \in DOMAIN schedules |->
                             IF i \in hit THEN MergeSchedule(schedules[i], r.req.body)
                             ELSE schedules[i]]
          /\ Respond("updateFeedingSetting", r.req, 200,
                     IF hit = {} THEN Undefined ELSE schedules'[CHOOSE i \in hit : TRUE],
                     r.stmts + 1)
  /\ inflight' = inflight (-) SetToBag({r})
  /\ UNCHANGED <<schSeq, feeding_logs, logSeq, alerts, now>>
  /\ UNCHANGED_aquariums

\* 14. DELETE /aquariums/:id/feeding_settings/:settingId, up to the ownership check
deleteFeedingSettingCheck(aquariumId, settingId) ==
  LET req == [id |-> aquariumId, settingId |-> settingId] IN
  /\ IF ~db_up
     THEN /\ Catch("deleteFeedingSetting", req, 1)
          /\ UNCHANGED inflight
     ELSE IF SelectSchedule(settingId, aquariumId) = {}
     THEN /\ Respond("deleteFeedingSetting", req, 404, Error("schedule_not_found"), 1)
          /\ UNCHANGED inflight
     ELSE /\ BagCardinality(inflight) < MaxInFlight
          /\ inflight' = inflight (+) SetToBag({[h |-> "deleteFeedingSetting", req |-> req, stmts |-> 1]})
          /\ UNCHANGED resp
  /\ UNCHANGED <<schedules, schSeq, feeding_logs, logSeq, alerts, now>>
  /\ UNCHANGED_aquariums

\* 14. DELETE /aquariums/:id/feeding_settings/:settingId, the DELETE and the response
deleteFeedingSettingApply(r) ==
  /\ r.h = "deleteFeedingSetting"
  /\ IF ~db_up
     THEN /\ Catch("deleteFeedingSetting", r.req, r.stmts + 1)
          /\ UNCHANGED schedules
     ELSE /\ schedules' = Restrict(schedules, DOMAIN schedules \ ScheduleById(r.req.settingId))
          /\ Respond("deleteFeedingSetting", r.req, 200, [status |-> "deleted"], r.stmts + 1)
  /\ inflight' = inflight (-) SetToBag({r})
  /\ UNCHANGED <<schSeq, feeding_logs, logSeq, alerts, now>>
  /\ UNCHANGED_aquariums

\* Aquariums that earlier requests created.
ExistingAquariums ==
  [i \in 1..MaxAq |-> InsertAquarium(i, Num(1), Str("Tank A"), Num(50))]

InitSched ==
  /\ now = 0
  /\ aquariums = ExistingAquariums /\ aqSeq = MaxAq
  /\ schedules = Empty /\ schSeq = 0
  /\ feeding_logs = Empty /\ logSeq = 0
  /\ alerts = Empty
  /\ sensor_data = Empty
  /\ db_up = TRUE
  /\ inflight = EmptyBag
  /\ resp = NoResp
  /\ returned = Empty

NextSched ==
  \/ \E id \in PathIds, b \in ScheduleCreateBodies : createFeedingSetting(id, b)
  \/ \E id \in PathIds : getFeedingSettings(id)
  \/ \E id \in PathIds, b \in ScheduleUpdateBodies : updateFeedingSettingCheck(id, b)
  \/ \E r \in BagToSet(inflight) : updateFeedingSettingApply(r)
  \/ \E id \in PathIds, sid \in 1..MaxSched : deleteFeedingSettingCheck(id, sid)
  \/ \E r \in BagToSet(inflight) : deleteFeedingSettingApply(r)

SpecSched == InitSched /\ [][NextSched]_vars

----------------------------------------------------------------------------
(* Table alerts and its handlers. *)

\* SELECT * FROM alerts WHERE id = $1 AND device_id = $2 : the ids selected
SelectAlert(alertId, aquariumId) ==
  {i \in DOMAIN alerts : i = alertId /\ alerts[i].device_id = aquariumId}

\* resolved === true || resolved === 'true'
ResolvedFlag(resolved) == resolved = Bool(TRUE) \/ resolved = Str("true")

SetResolvedKeepStamp(row, flag) ==
  [row EXCEPT !.resolved = Bool(flag),
              !.resolved_at = IF flag THEN Num(now) ELSE @]

\* SET resolved = $1, resolved_at = CASE WHEN $1 THEN now() ELSE NULL END
SetResolved(row, flag) ==
  [row EXCEPT !.resolved = Bool(flag),
              !.resolved_at = IF flag THEN Num(now) ELSE Null]

\* The sequences that list the rows of set S by ts, latest first.
OrderByTsDesc(S) ==
  {q \in [1..Cardinality(S) -> S] :
     /\ \A i, j \in 1..Cardinality(S) : i < j => q[i] # q[j] /\ q[i].ts.v >= q[j].ts.v}

Limit(q, n) == SubSeq(q, 1, IF Len(q) < n THEN Len(q) ELSE n)

AlertBodies ==
  { [alertId |-> Num(i), resolved |-> r] : i \in 1..MaxAlerts, r \in {Bool(TRUE), Bool(FALSE)} }
  \cup { [alertId |-> Num(1), resolved |-> Str("true")], [resolved |-> Bool(TRUE)] }

\* 6. GET /aquariums/:id/alerts
getAquariumAlerts(id) ==
  /\ IF ~db_up
     THEN Catch("getAquariumAlerts", [id |-> id], 1)
     ELSE \E q \in OrderByTsDesc({alerts[i] : i \in {j \in DOMAIN alerts :
                                                        alerts[j].device_id = id}}) :
            Respond("getAquariumAlerts", [id |-> id], 200, [rows |-> Limit(q, AlertLimit)], 1)
  /\ UNCHANGED <<schedules, schSeq, feeding_logs, logSeq, alerts, now, inflight>>
  /\ UNCHANGED_aquariums

\* 12. PUT /aquariums/:id/alerts, up to the ownership check
updateAlertStatusCheck(aquariumId, body) ==
  LET req == [id |-> aquariumId, body |-> body]
      alertId == Field(body, "alertId")
  IN /\ IF Falsy(alertId)
        THEN /\ Respond("updateAlertStatus", req, 400, Error("alertId required"), 0)
             /\ UNCHANGED inflight
        ELSE IF ~db_up
        THEN /\ Catch("updateAlertStatus", req, 1)
             /\ UNCHANGED inflight
        ELSE IF SelectAlert(alertId.v, aquariumId) = {}
        THEN /\ Respond("updateAlertStatus", req, 404, Error("alert_not_found"), 1)
             /\ UNCHANGED inflight
        ELSE /\ BagCardinality(inflight) < MaxInFlight
             /\ inflight' = inflight (+) SetToBag({[h |-> "updateAlertStatus", req |-> req, stmts |-> 1]})
             /\ UNCHANGED resp
     /\ UNCHANGED <<schedules, schSeq, feeding_logs, logSeq, alerts, now>>
     /\ UNCHANGED_aquariums

\* 12. PUT /aquariums/:id/alerts, the UPDATE and the response
updateAlertStatusApply(r) ==
  LET hit == {i \in DOMAIN alerts : i = r.req.body.alertId.v}
      flag == ResolvedFlag(Field(r.req.body, "resolved"))
  IN /\ r.h = "updateAlertStatus"
     /\ IF ~db_up
        THEN /\ Catch("updateAlertStatus", r.req, r.stmts + 1)
             /\ UNCHANGED alerts
        ELSE /\ alerts' = [i \in DOMAIN alerts |->
                             IF i \in hit THEN SetResolved(alerts[i], flag) ELSE alerts[i]]
             /\ Respond("updateAlertStatus", r.req, 200,
                        IF hit = {} THEN Undefined ELSE alerts'[CHOOSE i \in hit : TRUE],
                        r.stmts + 1)
     /\ inflight' = inflight (-) SetToBag({r})
     /\ UNCHANGED <<schedules, schSeq, feeding_logs, logSeq, now>>
     /\ UNCHANGED_aquariums

\* Alerts raised before the first request, dealt out over the aquariums, every
\* second one resolved since.
ExistingAlerts ==
  [i \in 1..MaxAlerts |->
     [id |-> i, device_id |-> ((i - 1) % MaxAq) + 1, ts |-> Num(0 - i),
      resolved |-> Bool(i % 2 = 0),
      resolved_at |-> IF i % 2 = 0 THEN Num(1 - i) ELSE Null]]

InitAlert ==
  /\ now = 0
  /\ aquariums = ExistingAquariums /\ aqSeq = MaxAq
  /\ schedules = Empty /\ schSeq = 0
  /\ feeding_logs = Empty /\ logSeq = 0
  /\ alerts = ExistingAlerts
  /\ sensor_data = Empty
  /\ db_up = TRUE
  /\ inflight = EmptyBag
  /\ resp = NoResp
  /\ returned = Empty

NextAlert ==
  \/ \E id \in PathIds : getAquariumAlerts(id)
  \/ \E id \in PathIds, b \in AlertBodies : updateAlertStatusCheck(id, b)
  \/ \E r \in BagToSet(inflight) : updateAlertStatusApply(r)
  \/ Tick

SpecAlert == InitAlert /\ [][NextAlert]_vars

----------------------------------------------------------------------------
(* Table feeding_logs and its handlers. *)

FeedBodies ==
  { [actor |-> Str("timer")],
    [volume_grams |-> Null],
    [volume_grams |-> Num(0)],
    [volume_grams |-> Num(5)],
    [volume_grams |-> Num(-2), actor |-> Str("")],
    [volume_grams |-> Str("3")],
    [volume_grams |-> Str("abc")] }

\* 3. POST /aquariums/:id/feed
triggerFeed(aquariumId, body) ==
  LET vol == Or(toNumber(Field(body, "volume_grams")), Null)
      id == logSeq + 1
      row == [id |-> id, device_id |-> aquariumId, ts |-> Num(now),
              mode |-> Str("MANUAL"), volume_grams |-> Param(vol),
              actor |-> Param(Or(Field(body, "actor"), Str("user")))]
  IN /\ IF ~db_up
        THEN /\ Catch("triggerFeed", [id |-> aquariumId, body |-> body], 1)
             /\ UNCHANGED <<feeding_logs, logSeq>>
        ELSE /\ Cardinality({i \in DOMAIN feeding_logs :
                               feeding_logs[i].mode = Str("MANUAL")}) < MaxFeeds
             /\ feeding_logs' = (id :> row) @@ feeding_logs
             /\ logSeq' = id
             /\ Respond("triggerFeed", [id |-> aquariumId, body |-> body], 201,
                        [status |-> "success", feeding |-> row], 1)
     /\ UNCHANGED <<schedules, schSeq, alerts, now, inflight>>
     /\ UNCHANGED_aquariums

\* date_trunc('day', ts)
DateTruncDay(ts) == ts - (ts % DayLen)

AllLogs(id) == DOMAIN feeding_logs

\* FROM feeding_logs WHERE device_id = $1 : the ids selected
LogsOf(id) == {i \in DOMAIN feeding_logs : feeding_logs[i].device_id = id}

RECURSIVE SumVolumes(_)
\* SUM(volume_grams) over the rows of ids S: NULL when no row has a volume
SumVolumes(S) ==
  IF S = {} THEN Null
  ELSE LET i == CHOOSE x \in S : TRUE
           rest == SumVolumes(S \ {i})
           v == feeding_logs[i].volume_grams
       IN IF v = Null THEN rest
          ELSE IF rest = Null THEN v ELSE Num(v.v + rest.v)

\* ORDER BY 1 DESC LIMIT n over the GROUP BY days: the days kept
KeepLatest(days, n) == {d \in days : Cardinality({e \in days : e > d}) < n}

\* ORDER BY 1 DESC: the day at position k of the days kept
DayAt(kept, k) == CHOOSE d \in kept : Cardinality({e \in kept : e > d}) = k - 1

\* 8. GET /aquariums/:id/daily-consumption
getDailyConsumption(id) ==
  LET mine == LogsOf(id)
      days == {DateTruncDay(feeding_logs[i].ts.v) : i \in mine}
      kept == KeepLatest(days, DailyLimit)
      rows == [k \in 1..Cardinality(kept) |->
                 LET day == DayAt(kept, k) IN
                 [date |-> Num(day),
                  consumed |-> Number(SumVolumes(
                     {i \in mine : DateTruncDay(feeding_logs[i].ts.v) = day}))]]
  IN /\ IF ~db_up
        THEN Catch("getDailyConsumption", [id |-> id], 1)
        ELSE Respond("getDailyConsumption", [id |-> id], 200, [rows |-> rows], 1)
     /\ UNCHANGED <<schedules, schSeq, feeding_logs, logSeq, alerts, now, inflight>>
     /\ UNCHANGED_aquariums

\* Feeds logged before the first request, two a day, the latest at time 0.
Backlog(n) ==
  [i \in 1..(n * DayLen) |->
     [id |-> i, device_id |-> IF i % 4 = 0 THEN 2 ELSE 1, ts |-> Num(1 - i),
      mode |-> Str("SCHEDULED"),
      volume_grams |-> IF i % 3 = 0 THEN Null ELSE Num(i % 3),
      actor |-> Str("scheduler")]]

BacklogDays == {1, DailyLimit + 1}

InitFeed ==
  /\ now = 0
  /\ aquariums = ExistingAquariums /\ aqSeq = MaxAq
  /\ schedules = Empty /\ schSeq = 0
  /\ \E n \in BacklogDays : feeding_logs = Backlog(n) /\ logSeq = n * DayLen
  /\ alerts = Empty
  /\ sensor_data = Empty
  /\ db_up = TRUE
  /\ inflight = EmptyBag
  /\ resp = NoResp
  /\ returned = Empty

NextFeed ==
  \/ \E id \in PathIds, b \in FeedBodies : triggerFeed(id, b)
  \/ \E id \in PathIds : getDailyConsumption(id)
  \/ Tick

SpecFeed == InitFeed /\ [][NextFeed]_vars

----------------------------------------------------------------------------
(* Table sensor_data and its handler. *)

\* LIMIT of getConditionHistory.
HistoryLimit == 500

\* The timestamp texts the requests of this model carry, as the database reads
\* a text parameter compared with ts: 'tick k' is tick k of the database clock,
\* anything else is not a timestamp and the statement fails.
TimestampIn(v) ==
  CASE v = Str("tick -2") -> Num(-2)
    [] v = Str("tick -500") -> Num(-500)
    [] OTHER -> NaN

\* The ids the serial behind sensor_data.id has given out, in that order.
SensorIds == [i \in 1..(HistoryLimit + MaxAq) |-> i]

WhereAnyTime(i, id, start, end) ==
  /\ i \in DOMAIN sensor_data
  /\ sensor_data[i].device_id = id

\* WHERE device_id = $1 [AND ts >= $2] [AND ts <= $3] on the row of id i
Where(i, id, start, end) ==
  /\ i \in DOMAIN sensor_data
  /\ sensor_data[i].device_id = id
  /\ ~Falsy(start) => sensor_data[i].ts.v >= TimestampIn(start).v
  /\ ~Falsy(end) => sensor_data[i].ts.v <= TimestampIn(end).v

\* SELECT * FROM sensor_data WHERE ... : the ids selected, as the scan meets them
Readings(id, start, end) ==
  SelectSeq(SensorIds, LAMBDA i : Where(i, id, start, end))

\* Row a comes before row b under ORDER BY ts DESC; the database is free in the
\* order of rows of equal ts, which here is by id, ascending or descending.
Before(a, b, asc) ==
  \/ a.ts.v > b.ts.v
  \/ a.ts.v = b.ts.v /\ (IF asc THEN a.id < b.id ELSE a.id > b.id)

\* ORDER BY ts DESC LIMIT n over the rows of the ids in sequence q
OrderLimit(q, asc, n) ==
  LET sorted == SortSeq(q, LAMBDA i, j : Before(sensor_data[i], sensor_data[j], asc))
  IN [k \in 1..(IF Len(sorted) < n THEN Len(sorted) ELSE n) |-> sensor_data[sorted[k]]]

\* Request inputs: the query parameters start and end.
HistoryBounds == {Undefined, Str(""), Str("yesterday-ish"), Str("tick -2"), Str("tick -500")}

\* 7. GET /aquariums/:id/condition-history
getConditionHistory(id, start, end) ==
  LET req == [id |-> id, start |-> start, end |-> end] IN
  /\ IF \/ ~db_up
        \/ ~Falsy(start) /\ TimestampIn(start) = NaN
        \/ ~Falsy(end) /\ TimestampIn(end) = NaN
     THEN Catch("getConditionHistory", req, 1)
     ELSE \E asc \in BOOLEAN :
            Respond("getConditionHistory", req, 200,
                    [rows |-> OrderLimit(Readings(id, start, end), asc, HistoryLimit)], 1)
  /\ UNCHANGED <<schedules, schSeq, feeding_logs, logSeq, alerts, now, inflight>>
  /\ UNCHANGED_aquariums

\* The tick of the reading of id i of aquarium 1: about i ticks back, but of
\* four in a row the second is older than the third, and the fourth and the
\* one after it are of the same tick.
BacklogTick(i) ==
  CASE i % 4 = 0 -> 0 - i
    [] i % 4 = 1 -> 1 - i
    [] i % 4 = 2 -> 0 - (i + 1)
    [] i % 4 = 3 -> 1 - i

\* Readings taken before the first request: n of aquarium 1 and one of every
\* other aquarium.
SensorBacklog(n) ==
  [i \in 1..(n + MaxAq - 1) |->
     IF i <= n
     THEN [id |-> i, device_id |-> 1, ts |-> Num(BacklogTick(i))]
     ELSE [id |-> i, device_id |-> i - n + 1, ts |-> Num(-2)]]

BacklogReadings == {5, HistoryLimit + 1}

InitSensor ==
  /\ now = 0
  /\ aquariums = ExistingAquariums /\ aqSeq = MaxAq
  /\ schedules = Empty /\ schSeq = 0
  /\ feeding_logs = Empty /\ logSeq = 0
  /\ alerts = Empty
  /\ \E n \in BacklogReadings : sensor_data = SensorBacklog(n)
  /\ db_up = TRUE
  /\ inflight = EmptyBag
  /\ resp = NoResp
  /\ returned = Empty

NextSensor ==
  \E id \in PathIds, start \in HistoryBounds, end \in HistoryBounds :
    getConditionHistory(id, start, end)

SpecSensor == InitSensor /\ [][NextSensor]_vars

----------------------------------------------------------------------------
(* Every handler on a database that may stop answering. *)

\* The database stops answering: from now on pool.query rejects.
dbFails ==
  /\ db_up
  /\ db_up' = FALSE
  /\ UNCHANGED <<aquariums, aqSeq, schedules, schSeq, feeding_logs, logSeq, alerts,
                 sensor_data, now, inflight, resp, returned>>

\* The database answers again.
dbRecovers ==
  /\ ~db_up
  /\ db_up' = TRUE
  /\ UNCHANGED <<aquariums, aqSeq, schedules, schSeq, feeding_logs, logSeq, alerts,
                 sensor_data, now, inflight, resp, returned>>

\* Request inputs: an aquarium that exists and one that never did, and one
\* body that passes each handler's validation next to one that does not.
OutagePathIds == {1, MaxAq + 1}

OutageCreateBodies == {[user_id |-> Num(1), name |-> Str("Tank A")], [user_id |-> Num(1)]}

OutageUpdateBodies == {[name |-> Str("Tank A")]}

OutageScheduleBodies == {[type |-> Str("interval")], [name |-> Str("Morning")]}

OutageScheduleUpdateBodies == {[settingId |-> Num(1), name |-> Str("Evening")], [name |-> Str("Evening")]}

OutageAlertBodies == {[alertId |-> Num(1), resolved |-> Bool(TRUE)], [resolved |-> Bool(TRUE)]}

OutageFeedBodies == {[volume_grams |-> Num(5)]}

OutageBounds == {Undefined, Str("yesterday-ish")}

InitOutage ==
  /\ now = 0
  /\ aquariums = ExistingAquariums /\ aqSeq = MaxAq
  /\ schedules = Empty /\ schSeq = 0
  /\ feeding_logs = Empty /\ logSeq = 0
  /\ alerts = ExistingAlerts
  /\ sensor_data = SensorBacklog(1)
  /\ db_up = TRUE
  /\ inflight = EmptyBag
  /\ resp = NoResp
  /\ returned = Empty

NextOutage ==
  \/ dbFails
  \/ dbRecovers
  \/ \E b \in OutageCreateBodies : createAquarium(b)
  \/ \E b \in OutageScheduleBodies : createFeedingSetting(1, b)
  \/ \E b \in OutageFeedBodies : triggerFeed(1, b)
  \/ listAquariums(Undefined)
  \/ \E id \in OutagePathIds : getAquarium(id)
  \/ getAquariumAlerts(1)
  \/ \E b \in OutageBounds : getConditionHistory(1, b, Undefined)
  \/ getDailyConsumption(1)
  \/ getFeedingSettings(1)
  \/ \E id \in OutagePathIds, b \in OutageUpdateBodies : updateAquarium(id, b)
  \/ \E id \in OutagePathIds, b \in OutageScheduleUpdateBodies : updateFeedingSettingCheck(id, b)
  \/ \E r \in BagToSet(inflight) : updateFeedingSettingApply(r)
  \/ \E id \in OutagePathIds, b \in OutageAlertBodies : updateAlertStatusCheck(id, b)
  \/ \E r \in BagToSet(inflight) : updateAlertStatusApply(r)
  \/ deleteAquarium(MaxAq + 1)
  \/ \E id \in OutagePathIds : deleteFeedingSettingCheck(id, 1)
  \/ \E r \in BagToSet(inflight) : deleteFeedingSettingApply(r)

SpecOutage == InitOutage /\ [][NextOutage]_vars

----------------------------------------------------------------------------
(* Two updateAquarium requests at once. *)

\* Request inputs.
ConcurrentBodies ==
  { [name |-> Str("Tank B"), size_litres |-> Num(60)],
    [name |-> Str("Tank C")],
    [size_litres |-> Num(70), feeding_volume_grams |-> Num(2)],
    [name |-> Null, feeding_period_hours |-> Num(12)] }

\* An updateAquarium request that has reached its await: the statement is on
\* its way to the database.
Awaiting(id, body) == [h |-> "updateAquarium", req |-> [id |-> id, body |-> body], stmts |-> 0]

\* 10. PUT /aquariums/:id of a request in flight: the database runs its UPDATE
\* and the handler answers
updateAquariumResume(r) ==
  /\ r.h = "updateAquarium"
  /\ updateAquariumStatement(r.req.id, r.req.body)
  /\ inflight' = inflight (-) SetToBag({r})

\* Two requests have arrived and neither statement has run.
InitConcurrent ==
  /\ now = 0
  /\ aquariums = ExistingAquariums /\ aqSeq = MaxAq
  /\ schedules = Empty /\ schSeq = 0
  /\ feeding_logs = Empty /\ logSeq = 0
  /\ alerts = Empty
  /\ sensor_data = Empty
  /\ db_up = TRUE
  /\ \E id1 \in PathIds, id2 \in PathIds, b1 \in ConcurrentBodies, b2 \in ConcurrentBodies :
       inflight = SetToBag({Awaiting(id1, b1)}) (+) SetToBag({Awaiting(id2, b2)})
  /\ resp = NoResp
  /\ returned = Empty

NextConcurrent == \E r \in BagToSet(inflight) : updateAquariumResume(r)

SpecConcurrent == InitConcurrent /\ [][NextConcurrent]_vars

----------------------------------------------------------------------------
(* Every route on every table. *)

Init == InitAq \/ InitSched \/ InitAlert \/ InitFeed \/ InitSensor \/ InitOutage \/ InitConcurrent

Next == NextAq \/ NextSched \/ NextAlert \/ NextFeed \/ NextSensor \/ NextOutage \/ NextConcurrent

Spec == Init /\ [][Next]_vars

----------------------------------------------------------------------------
(* Properties of the aquarium handlers. *)

UpdatableColumns == {"name", "size_litres", "feeding_volume_grams", "feeding_period_hours"}

\* the body supplies field f with a value other than null
Supplied(b, f) == f \in DOMAIN b /\ b[f] # Null /\ b[f] # Undefined

\* the body does not carry field f
Missing(b, f) == f \notin DOMAIN b \/ b[f] = Undefined

\* C3: updateAquarium of an existing aquarium sets exactly the fields among name,
\* size_litres, feeding_volume_grams, feeding_period_hours that the body supplies
\* non-null and keeps every other column (id, user_id, created_at included) and
\* every other row; of an absent id it answers 404 and changes nothing; the same
\* update sent again right after changes nothing and returns the same row.
C3_UpdateAquariumMergesNonNull ==
  [][ /\ Sent("updateAquarium") =>
           LET id == resp'.req.id
               b == resp'.req.body
           IN IF id \in DOMAIN aquariums
              THEN /\ resp'.status = 200
                   /\ DOMAIN aquariums' = DOMAIN aquariums
                   /\ resp'.body = aquariums'[id]
                   /\ \A c \in DOMAIN aquariums[id] :
                        aquariums'[id][c] =
                          IF c \in UpdatableColumns /\ Supplied(b, c)
                          THEN b[c] ELSE aquariums[id][c]
                   /\ \A j \in DOMAIN aquariums \ {id} : aquariums'[j] = aquariums[j]
              ELSE /\ resp'.status = 404
                   /\ aquariums' = aquariums
      /\ ( /\ resp.h = "updateAquarium" /\ resp.status = 200
           /\ Sent("updateAquarium") /\ resp'.req = resp.req
           /\ aquariums[resp.req.id] = resp.body )
         => (aquariums' = aquariums /\ resp'.body = resp.body /\ resp'.status = 200)
    ]_vars

\* An update that named only some fields answered 200 with the others as they were.
C3_Witness ==
  /\ resp.h = "updateAquarium" /\ resp.status = 200
  /\ resp.req.body.name = Null /\ resp.req.body.size_litres = Num(60)
  /\ resp.body.name = Str("Tank A") /\ resp.body.size_litres = Num(60)
  /\ Cardinality(DOMAIN aquariums) = 2

\* what a createAquarium step that inserted did to the table and answered
CreatedOne ==
  /\ resp'.status = 201 /\ resp'.stmts = 1
  /\ \E id \in DOMAIN aquariums' \ DOMAIN aquariums :
       /\ DOMAIN aquariums' = DOMAIN aquariums \cup {id}
       /\ resp'.body = Project(aquariums'[id], AquariumColumns)
       /\ resp'.body.id = id
       /\ resp'.body.user_id = resp'.req.body.user_id
       /\ resp'.body.name = resp'.req.body.name
  /\ \A j \in DOMAIN aquariums : aquariums'[j] = aquariums[j]

\* what a createAquarium step that refused did
Refused ==
  /\ resp'.status = 400 /\ resp'.stmts = 0
  /\ "error" \in DOMAIN resp'.body
  /\ aquariums' = aquariums /\ aqSeq' = aqSeq

\* C4 as stated: a body without user_id or name is refused with 400 and no
\* statement; a body that carries both inserts one aquarium and answers 201.
C4_Original ==
  [][ Sent("createAquarium") =>
        IF Missing(resp'.req.body, "user_id") \/ Missing(resp'.req.body, "name")
        THEN Refused ELSE CreatedOne ]_vars

\* C4 amended: a body whose user_id or name is missing or falsy (0, the empty
\* string) is refused with 400 and no statement, the table unchanged; a body with
\* both truthy inserts exactly one aquarium and answers 201 with the created row
\* and its generated id.
C4_CreateAquariumValidates ==
  [][ Sent("createAquarium") =>
        LET b == resp'.req.body IN
        IF Missing(b, "user_id") \/ Missing(b, "name")
           \/ b.user_id \in {Num(0), Str(""), Null} \/ b.name \in {Num(0), Str(""), Null}
        THEN Refused ELSE CreatedOne ]_vars

\* A second aquarium was created and answered with its own id.
C4_Witness ==
  /\ resp.h = "createAquarium" /\ resp.status = 201
  /\ resp.body.id = 2 /\ DOMAIN aquariums = {1, 2}
  /\ resp.body.size_litres = Null

\* C5: getAquarium of an id that createAquarium returned and that no request has
\* updated or deleted since answers 200 with the same id, user_id, name,
\* size_litres and created_at as the create returned.
C5_GetReturnsCreated ==
  [][ (Sent("getAquarium") /\ resp'.req.id \in DOMAIN returned) =>
        /\ resp'.status = 200
        /\ \A c \in AquariumColumns : resp'.body[c] = returned[resp'.req.id][c] ]_vars

\* The second of two aquariums was fetched untouched, later than it was created.
C5_Witness ==
  /\ resp.h = "getAquarium" /\ resp.status = 200
  /\ resp.req.id = 2 /\ 2 \in DOMAIN returned
  /\ resp.body.size_litres = Num(50)
  /\ resp.body.created_at # Num(now)
  /\ 1 \in DOMAIN aquariums

\* C6: deleteAquarium of an absent id answers 404 not_found and changes no
\* aquarium; of an existing id it removes that row alone and answers 200 with
\* {status: 'deleted', id}; a deleted id stays absent, and getAquarium,
\* updateAquarium and deleteAquarium of it answer 404.
C6_DeleteAquarium ==
  [][ /\ Sent("deleteAquarium") =>
           LET id == resp'.req.id IN
           IF id \in DOMAIN aquariums
           THEN /\ resp'.status = 200
                /\ resp'.body = [status |-> "deleted", id |-> id]
                /\ aquariums' = Restrict(aquariums, DOMAIN aquariums \ {id})
           ELSE /\ resp'.status = 404
                /\ resp'.body = Error("not_found")
                /\ aquariums' = aquariums
      /\ \A id \in (1..aqSeq) \ DOMAIN aquariums :
           /\ id \notin DOMAIN aquariums'
           /\ ( /\ Sent("getAquarium") \/ Sent("updateAquarium") \/ Sent("deleteAquarium")
                /\ resp'.req.id = id ) => resp'.status = 404
    ]_vars

\* One of two aquariums was deleted and a later update of it answered 404.
C6_Witness ==
  /\ resp.h = "updateAquarium" /\ resp.status = 404
  /\ resp.req.id = 1 /\ aqSeq = 2
  /\ DOMAIN aquariums = {2}

----------------------------------------------------------------------------
(* Properties of the schedule handlers. *)

TwoStatementHandlers == {"updateFeedingSetting", "updateAlertStatus", "deleteFeedingSetting"}

\* C1: an updateFeedingSetting or deleteFeedingSetting that names schedule s
\* under an aquarium other than the owner of s answers 404 schedule_not_found
\* and leaves s present and unchanged; and whenever one of the two handlers
\* changes or removes a schedule, the path of its request names the owner,
\* whatever other requests ran between its check and its second statement.
C1_ScheduleScopedToOwner ==
  [][ \A s \in DOMAIN schedules :
        LET owner == schedules[s].device_id
            touched == s \notin DOMAIN schedules' \/ schedules'[s] # schedules[s]
        IN /\ ( \/ /\ Sent("updateFeedingSetting")
                   /\ resp'.req.body.settingId = Num(s)
                   /\ resp'.req.id # owner
                \/ /\ Sent("deleteFeedingSetting")
                   /\ resp'.req.settingId = s
                   /\ resp'.req.id # owner )
              => /\ resp'.status = 404
                 /\ resp'.body = Error("schedule_not_found")
                 /\ ~touched
           /\ (touched /\ (Sent("updateFeedingSetting") \/ Sent("deleteFeedingSetting")))
              => resp'.req.id = owner
    ]_vars

\* An update through the other aquarium was refused while a request of the owner
\* was between its two statements.
C1_Witness ==
  /\ resp.h = "updateFeedingSetting" /\ resp.status = 404
  /\ resp.req.body.settingId = Num(1)
  /\ 1 \in DOMAIN schedules /\ schedules[1].device_id # resp.req.id
  /\ BagCardinality(inflight) > 0

\* C7 as stated: an updateFeedingSetting request ends with 200 and the updated
\* row, with 400 for a missing settingId, or with 404; never 200 without a row.
C7_Original ==
  resp.h = "updateFeedingSetting" =>
    \/ resp.status = 200 /\ "id" \in DOMAIN resp.body
    \/ resp.status = 400 /\ Missing(resp.req.body, "settingId")
    \/ resp.status = 404

----------------------------------------------------------------------------
(* Properties of the alert handlers. *)

\* C2: a successful updateAlertStatus sets resolved to the flag of the request
\* (true for true or 'true') and resolved_at to the current time when the flag
\* is true and to null when it is false, whether the alert was open or resolved
\* before; it changes no other alert, and in every alert resolved_at stays
\* non-null exactly when resolved is true.
C2_ResolvedAtIffResolved ==
  [][ /\ \A x \in DOMAIN alerts :
           ( /\ Sent("updateAlertStatus") /\ resp'.status = 200
             /\ resp'.req.body.alertId = Num(x) )
           => LET want == resp'.req.body.resolved \in {Bool(TRUE), Str("true")} IN
              /\ alerts'[x].resolved = Bool(want)
              /\ alerts'[x].resolved_at = (IF want THEN Num(now) ELSE Null)
              /\ resp'.body = alerts'[x]
              /\ \A y \in DOMAIN alerts \ {x} : alerts'[y] = alerts[y]
      /\ \A x \in DOMAIN alerts' :
           alerts'[x].resolved = Bool(alerts'[x].resolved_at # Null)
    ]_vars

\* The alert that began resolved was reopened, the one that began open resolved.
C2_Witness ==
  /\ resp.h = "updateAlertStatus" /\ resp.status = 200
  /\ resp.req.body = [alertId |-> Num(2), resolved |-> Bool(FALSE)]
  /\ alerts[2].resolved = Bool(FALSE) /\ alerts[2].resolved_at = Null
  /\ alerts[1].resolved = Bool(TRUE) /\ alerts[1].resolved_at = Num(1)

----------------------------------------------------------------------------
(* Properties of the feeding log handlers. *)

\* what a triggerFeed step did, given the volume it should have stored
FedOne(volume) ==
  LET b == resp'.req.body IN
  /\ resp'.status = 201
  /\ \E id \in DOMAIN feeding_logs' \ DOMAIN feeding_logs :
       /\ DOMAIN feeding_logs' = DOMAIN feeding_logs \cup {id}
       /\ feeding_logs'[id].mode = Str("MANUAL")
       /\ feeding_logs'[id].device_id = resp'.req.id
       /\ feeding_logs'[id].volume_grams = volume
       /\ Missing(b, "actor") => feeding_logs'[id].actor = Str("user")
       /\ resp'.body = [status |-> "success", feeding |-> feeding_logs'[id]]
  /\ \A j \in DOMAIN feeding_logs : feeding_logs'[j] = feeding_logs[j]

\* the number a supplied volume stands for, when it stands for one
NumericValue(v) ==
  IF v.t = "number" THEN v
  ELSE IF v = Str("3") THEN Num(3)
  ELSE IF v = Str("") THEN Num(0)
  ELSE Null

\* C9 as stated: an absent, null, non-numeric, zero or negative volume is stored
\* as null, a strictly positive one as given.
C9_Original ==
  [][ Sent("triggerFeed") =>
        LET n == NumericValue(Field(resp'.req.body, "volume_grams")) IN
        FedOne(IF n # Null /\ n.v > 0 THEN n ELSE Null) ]_vars

\* C9 amended: triggerFeed always inserts exactly one feeding log with mode
\* 'MANUAL' for the path aquarium; volume_grams is stored as null when the
\* supplied volume is absent, null, non-numeric or zero, and every other numeric
\* volume, negative ones included, is stored as given; actor is 'user' when not
\* supplied.
C9_TriggerFeedStoresVolume ==
  [][ Sent("triggerFeed") =>
        LET n == NumericValue(Field(resp'.req.body, "volume_grams")) IN
        FedOne(IF n # Null /\ n.v # 0 THEN n ELSE Null) ]_vars

\* A feed of zero grams was logged with no volume, by 'user'.
C9_Witness ==
  /\ resp.h = "triggerFeed" /\ resp.status = 201
  /\ resp.req.body = [volume_grams |-> Num(0)]
  /\ resp.body.feeding.volume_grams = Null
  /\ resp.body.feeding.actor = Str("user")
  /\ resp.body.feeding.ts = Num(1)

\* the calendar day, counted from time 0, that time ts falls on
DayOf(ts) == ts \div DayLen

RECURSIVE Total(_, _)
\* the volumes of the logs of ids S added up, a log without volume adding nothing
Total(logs, S) ==
  IF S = {} THEN 0
  ELSE LET i == CHOOSE x \in S : TRUE
       IN (IF logs[i].volume_grams = Null THEN 0 ELSE logs[i].volume_grams.v)
          + Total(logs, S \ {i})

\* C10: getDailyConsumption of aquarium a answers with at most 30 entries, later
\* days first, one for each day on which a has a feeding log; consumed is the sum
\* of the volumes of a's logs of that day, logs of other aquariums not counted;
\* a day of a that is left out is earlier than all 30 days listed.
C10_DailyConsumption ==
  [][ Sent("getDailyConsumption") =>
        LET a == resp'.req.id
            rows == resp'.body.rows
            mine == {i \in DOMAIN feeding_logs : feeding_logs[i].device_id = a}
            on(d) == {i \in mine : DayOf(feeding_logs[i].ts.v) = d}
        IN /\ resp'.status = 200
           /\ Len(rows) <= DailyLimit
           /\ \A k \in 1..(Len(rows) - 1) : rows[k].date.v > rows[k + 1].date.v
           /\ \A k \in 1..Len(rows) :
                LET d == DayOf(rows[k].date.v) IN
                /\ rows[k].date.v = d * DayLen
                /\ on(d) # {}
                /\ rows[k].consumed = Num(Total(feeding_logs, on(d)))
           /\ \A i \in mine :
                \/ \E k \in 1..Len(rows) : DayOf(rows[k].date.v) = DayOf(feeding_logs[i].ts.v)
                \/ /\ Len(rows) = DailyLimit
                   /\ feeding_logs[i].ts.v < rows[Len(rows)].date.v
    ]_vars

\* The 30 latest of more than 30 days were listed, today's feed of 5 grams added
\* to the 1 gram logged earlier that day.
C10_Witness ==
  /\ resp.h = "getDailyConsumption" /\ resp.req.id = 1
  /\ Len(resp.body.rows) = DailyLimit
  /\ resp.body.rows[1] = [date |-> Num(0), consumed |-> Num(6)]
  /\ Cardinality({DayOf(feeding_logs[i].ts.v) : i \in LogsOf(1)}) > DailyLimit

----------------------------------------------------------------------------
(* Condition history. *)

\* A bound of the query is given: the parameter is there and not empty.
BoundGiven(v) == v # Undefined /\ v # Str("")

\* The readings of aquarium id inside the bounds of request req.
InBounds(req) ==
  {r \in {sensor_data[i] : i \in DOMAIN sensor_data} :
     /\ r.device_id = req.id
     /\ BoundGiven(req.start) => r.ts.v >= TimestampIn(req.start).v
     /\ BoundGiven(req.end) => r.ts.v <= TimestampIn(req.end).v}

\* C11: a condition history answered with 200 lists readings of the aquarium
\* asked for, each once, every one at or after start when start is given and
\* at or before end when end is given, latest first, HistoryLimit of them at
\* most, and none left out is later than one listed.
C11_ConditionHistory ==
  [][Sent("getConditionHistory") /\ resp'.status = 200 =>
       LET rows == resp'.body.rows
           got == {rows[k] : k \in DOMAIN rows}
           all == InBounds(resp'.req)
       IN /\ got \subseteq all
          /\ Cardinality(got) = Len(rows)
          /\ \A k \in 1..(Len(rows) - 1) : rows[k].ts.v >= rows[k + 1].ts.v
          /\ Len(rows) <= HistoryLimit
          /\ Len(rows) < HistoryLimit => got = all
          /\ \A r \in all \ got : \A g \in got : r.ts.v <= g.ts.v]_vars

\* A history with a start bound has been cut at the limit, between two readings
\* of the same tick.
C11_Witness ==
  /\ resp.h = "getConditionHistory" /\ resp.status = 200
  /\ BoundGiven(resp.req.start)
  /\ Len(resp.body.rows) = HistoryLimit
  /\ \E r \in InBounds(resp.req) :
       /\ r \notin {resp.body.rows[k] : k \in DOMAIN resp.body.rows}
       /\ r.ts = resp.body.rows[HistoryLimit].ts

----------------------------------------------------------------------------
(* Failures of the database. *)

\* This step sent a response.
SentAny == resp'.n # resp.n

\* C12: while the database does not answer, a handler's step sends a response,
\* which is 500 {error: 'internal_error'} unless the handler refused the
\* request with 400 before its first statement, and writes no table; every
\* response outside 2xx has a body {error: <string>}; and a request is
\* answered once: a response to a first statement leaves no request in flight
\* behind, a response to a second statement takes its request out of flight,
\* and a request put in flight is not answered in that step.
C12_FailuresAnswered500 ==
  [][/\ ~db_up /\ ~db_up' =>
          /\ SentAny
          /\ \/ resp'.status = 400 /\ resp'.stmts = 0
             \/ resp'.status = 500 /\ resp'.body = Error("internal_error")
          /\ UNCHANGED <<aquariums, schedules, feeding_logs, alerts, sensor_data>>
     /\ SentAny /\ resp'.status \notin 200..299 =>
          /\ DOMAIN resp'.body = {"error"}
          /\ resp'.body.error \in STRING
     /\ SentAny /\ resp'.stmts <= 1 => inflight' = inflight
     /\ SentAny /\ resp'.stmts > 1 =>
          \E r \in BagToSet(inflight) :
            /\ r.h = resp'.h /\ r.req = resp'.req
            /\ inflight' = inflight (-) SetToBag({r})
     /\ ~SentAny /\ db_up' = db_up =>
          BagCardinality(inflight') = BagCardinality(inflight) + 1]_vars

\* The second statement of a request failed after its first had passed, and
\* the request was answered 500.
C12_Witness ==
  /\ ~db_up
  /\ resp.status = 500 /\ resp.body = Error("internal_error")
  /\ resp.stmts = 2
  /\ resp.h = "updateFeedingSetting"

----------------------------------------------------------------------------
(* Concurrent updates of one aquarium. *)

\* C13: of two updateAquarium requests in flight at once on the same aquarium,
\* when the second statement runs the row ends, column by column, with the
\* value the second request supplied, else the value the first supplied, else
\* the value it had before both; the other columns and the other rows are as
\* before.
C13_ConcurrentUpdatesSerialise ==
  [][\A r \in BagToSet(inflight) :
       /\ BagCardinality(inflight) = 1 /\ inflight' = EmptyBag
       /\ resp.h = "updateAquarium" /\ resp.status = 200
       /\ resp.req.id = r.req.id
       => LET id == r.req.id
              first == resp.req.body
              second == r.req.body
              before == ExistingAquariums[id]
              final == aquariums'[id]
          IN /\ resp'.status = 200 /\ resp'.body = final
             /\ \A f \in UpdatableColumns :
                  final[f] = IF Supplied(second, f) THEN second[f]
                             ELSE IF Supplied(first, f) THEN first[f]
                             ELSE before[f]
             /\ \A f \in DOMAIN before \ UpdatableColumns : final[f] = before[f]
             /\ \A i \in DOMAIN aquariums \ {id} : aquariums'[i] = ExistingAquariums[i]
             /\ DOMAIN aquariums' = DOMAIN ExistingAquariums]_vars

\* Both requests named the aquarium and only the first gave it a size: the
\* name is the second's and the size the first's.
C13_Witness ==
  /\ inflight = EmptyBag
  /\ resp.h = "updateAquarium" /\ resp.status = 200
  /\ resp.req.body = [name |-> Str("Tank C")]
  /\ aquariums[resp.req.id].name = Str("Tank C")
  /\ aquariums[resp.req.id].size_litres = Num(60)

====
